---------------------------- MODULE Spec2Model ----------------------------
(***************************************************************************)
(* A model of bevy_flycam (src/src/lib.rs), native (non-wasm) build.       *)
(*                                                                         *)
(* The plugin is a set of systems a host bevy app runs once per frame, in  *)
(* an order the scheduler is free to choose, after the input of the frame  *)
(* has been delivered.  Both plugins of the crate are run side by side on  *)
(* the same input and the same schedule (apps[p], p \in Plugins), so that  *)
(* what one plugin does can be compared with what the other does.          *)
(*                                                                         *)
(* Numbers.  f32 vectors are fixed-point integer vectors with Scale units  *)
(* per unit of length.  A rotation is a 3x3 integer matrix whose columns   *)
(* are orthogonal and give the directions of the local x, y and z axes     *)
(* (their lengths are divided out where the code reads a unit vector).     *)
(* Angles are whole quarter turns: a mouse delta is measured in units of   *)
(* 90 / (sensitivity * window_scale) pixels, a wheel step in units of      *)
(* 1 / (sensitivity * 1024) lines, and Time's delta in sixths of a second. *)
(***************************************************************************)
EXTENDS Integers, Sequences, FiniteSets

VARIABLES
    hasWindow,  \* whether Windows holds a primary window
    todo,       \* the systems of the current stage that have not run yet
    frame,      \* frames begun so far
    keys,       \* Input<KeyCode>: pressed (in iteration order), just_pressed
    buttons,    \* Input<MouseButton>: the pressed buttons
    motion,     \* Events<MouseMotion>
    wheel,      \* Events<MouseWheel>
    delta,      \* Time::delta_seconds, in sixths of a second
    escapes,    \* frames so far in which Escape was just pressed
    apps        \* per plugin: cams, window, the two event readers, history

vars == <<hasWindow, todo, frame, keys, buttons, motion, wheel, delta, escapes, apps>>

----------------------------------------------------------------------------
(* Bounds of the model *)

MaxFrames == 3
MaxCursorFrames == 4
MaxMoveFrames == 2
MaxScrollFrames == 2
MaxHeld == 2
MaxMotion == 1
MaxWheel == 2
Scale == 100

----------------------------------------------------------------------------
(* MovementSettings::default *)

Speed == 12
Boost == 4

Plugins == {"PlayerPlugin", "NoCameraPlayerPlugin"}

\* The systems each plugin registers on a non-wasm target.
StartupSystems(p) ==
    IF p = "PlayerPlugin"
    THEN {"setup_player", "initial_grab_cursor"}
    ELSE {"initial_grab_cursor"}

\* (mutant) NoCameraPlayerPlugin forgets to register player_look
SystemsNoLook(p) ==
    IF p = "PlayerPlugin"
    THEN {"player_move", "player_look", "scroll", "cursor_grab"}
    ELSE {"player_move", "scroll", "cursor_grab"}

Systems(p) ==
    {"player_move", "player_look", "scroll", "cursor_grab"}

\* The resources each plugin initialises.
Resources(p) == {"InputState", "MovementSettings"}

\* what the Startup stage and the Update stage of a frame have to run
AllStartup == StartupSystems("PlayerPlugin") \cup StartupSystems("NoCameraPlayerPlugin")
AllSystems == Systems("PlayerPlugin") \cup Systems("NoCameraPlayerPlugin")

----------------------------------------------------------------------------
(* Vectors, matrices, fixed point *)

Zero3 == <<0, 0, 0>>
Add3(u, v) == <<u[1] + v[1], u[2] + v[2], u[3] + v[3]>>
Neg3(u) == <<-u[1], -u[2], -u[3]>>
Dot3(u, v) == u[1] * v[1] + u[2] * v[2] + u[3] * v[3]
Mul3(u, n) == <<u[1] * n, u[2] * n, u[3] * n>>

\* a / b rounded to the nearest integer, b > 0
RoundDiv(a, b) == (2 * a + b) \div (2 * b)

RECURSIVE SqrtSearch(_, _, _)
SqrtSearch(n, lo, hi) ==
    IF lo >= hi THEN lo
    ELSE LET mid == (lo + hi + 1) \div 2
         IN  IF mid * mid <= n THEN SqrtSearch(n, mid, hi)
                               ELSE SqrtSearch(n, lo, mid - 1)

RECURSIVE SqrtAbove(_, _)
SqrtAbove(n, h) == IF h * h > n THEN h ELSE SqrtAbove(n, 2 * h)

\* the integer square root of n >= 0
ISqrt(n) == SqrtSearch(n, 0, SqrtAbove(n, 1))

\* the unit vector along the integer vector v, in fixed point
Unit3(v) ==
    LET len == ISqrt(Dot3(v, v) * Scale * Scale)
    IN  <<RoundDiv(v[1] * Scale * Scale, len),
          RoundDiv(v[2] * Scale * Scale, len),
          RoundDiv(v[3] * Scale * Scale, len)>>

\* Vec3::normalize_or_zero of a fixed-point vector
NormalizeOrZero(v) ==
    IF Dot3(v, v) = 0 THEN Zero3
    ELSE LET len == ISqrt(Dot3(v, v))
         IN  <<RoundDiv(v[1] * Scale, len),
               RoundDiv(v[2] * Scale, len),
               RoundDiv(v[3] * Scale, len)>>

Col(m, j) == <<m[1][j], m[2][j], m[3][j]>>

MatMul(a, b) ==
    <<<<Dot3(a[1], Col(b, 1)), Dot3(a[1], Col(b, 2)), Dot3(a[1], Col(b, 3))>>,
      <<Dot3(a[2], Col(b, 1)), Dot3(a[2], Col(b, 2)), Dot3(a[2], Col(b, 3))>>,
      <<Dot3(a[3], Col(b, 1)), Dot3(a[3], Col(b, 2)), Dot3(a[3], Col(b, 3))>>>>

Identity == <<<<1, 0, 0>>, <<0, 1, 0>>, <<0, 0, 1>>>>

\* cosine and sine of q quarter turns
Cos4(q) == CASE q % 4 = 0 -> 1 [] q % 4 = 2 -> -1 [] OTHER -> 0
Sin4(q) == CASE q % 4 = 1 -> 1 [] q % 4 = 3 -> -1 [] OTHER -> 0

\* Quat::from_rotation_x / _y / _z of q quarter turns
FromRotationX(q) ==
    <<<<1, 0, 0>>, <<0, Cos4(q), -Sin4(q)>>, <<0, Sin4(q), Cos4(q)>>>>
FromRotationY(q) ==
    <<<<Cos4(q), 0, Sin4(q)>>, <<0, 1, 0>>, <<-Sin4(q), 0, Cos4(q)>>>>
FromRotationZ(q) ==
    <<<<Cos4(q), -Sin4(q), 0>>, <<Sin4(q), Cos4(q), 0>>, <<0, 0, 1>>>>

\* Transform::local_z and Transform::forward, as fixed-point unit vectors
LocalZ(t) == Unit3(Col(t.rotation, 3))
Forward(t) == Neg3(LocalZ(t))


----------------------------------------------------------------------------
(* Input: Input<KeyCode>, Input<MouseButton>, Events<T>, ManualEventReader *)

MoveKeys == {"W", "S", "A", "D", "Up", "Down", "Left", "Right"}
HeightKeys == {"Space", "Period", "RShift", "Comma"}
PitchKeys == {"LBracket", "RBracket"}
YawKeys == {"Q", "E"}
RollKeys == {"Z", "X"}
BoostKeys == {"LShift", "O"}
TurnKeys == PitchKeys \cup YawKeys \cup RollKeys

Range(s) == {s[i] : i \in 1..Len(s)}

\* the orders in which a HashSet holding the set S may be iterated
Orders(S) ==
    {s \in [1..Cardinality(S) -> S] : \A i, j \in 1..Cardinality(S) : s[i] = s[j] => i = j}

\* the sequences over S of length at most n
SeqsUpTo(S, n) == UNION {[1..m -> S] : m \in 0..n}

EmptyEvents ==
    [events_a |-> <<>>, events_b |-> <<>>, a_start |-> 0, b_start |-> 0, event_count |-> 0]

\* Events::send of one event with payload d, in frame f
EventsSend(ev, d, f) ==
    [ev EXCEPT !.events_b = Append(@, [data |-> d, id |-> ev.event_count, frame |-> f]),
               !.event_count = @ + 1]

RECURSIVE EventsSendAll(_, _, _)
EventsSendAll(ev, ds, f) ==
    IF ds = <<>> THEN ev
    ELSE EventsSendAll(EventsSend(ev, Head(ds), f), Tail(ds), f)

\* Events::update: the buffers swap and the older one is dropped
EventsUpdate(ev) ==
    [events_a |-> ev.events_b, events_b |-> <<>>,
     a_start |-> ev.b_start, b_start |-> ev.event_count,
     event_count |-> ev.event_count]

\* the events of buffer s, which starts at count start, from count last on
Unseen(s, start, last) ==
    LET skip == IF last > start THEN last - start ELSE 0
    IN  IF skip >= Len(s) THEN <<>> ELSE SubSeq(s, skip + 1, Len(s))

\* ManualEventReader::iter: the events the reader has not seen yet
ReaderIter(last, ev) ==
    Unseen(ev.events_a, ev.a_start, last) \o Unseen(ev.events_b, ev.b_start, last)


----------------------------------------------------------------------------
(* The systems, each as what it does to one app *)

\* toggle_grab_cursor
ToggleGrabCursor(w) == [locked |-> ~w.locked, visible |-> ~w.visible]

\* initial_grab_cursor
InitialGrabCursorApp(a) ==
    IF hasWindow THEN [a EXCEPT !.window = ToggleGrabCursor(@)] ELSE a

\* the transform setup_player gives the camera: from_xyz(-2, 5, 5) looking at
\* the origin, so local z is along (-2, 5, 5), local x along Y x z = (5, 0, 2)
\* and local y along z x x = (10, 29, -25)
PlayerTransform ==
    [translation |-> <<-2 * Scale, 5 * Scale, 5 * Scale>>,
     rotation |-> <<<<5, 10, -2>>, <<0, 29, 5>>, <<2, -25, 5>>>>]

\* setup_player
SetupPlayerApp(a) ==
    [a EXCEPT !.cams = Append(@, PlayerTransform), !.spawned = @ + 1]

RECURSIVE BoostLoop(_, _)
BoostLoop(order, boost) ==
    IF order = <<>> THEN boost
    ELSE BoostLoop(Tail(order),
                   CASE Head(order) = "LShift" -> [num |-> Boost, den |-> 1]
                     [] Head(order) = "O" -> [num |-> 1, den |-> Boost]
                     [] OTHER -> boost)

\* get_boost: the loop over keys.get_pressed(), as the fraction num / den
GetBoost(order) == BoostLoop(order, [num |-> 1, den |-> 1])

\* one iteration of player_move's loop over the pressed keys
MoveKey(acc, key, forward, right) ==
    CASE key = "W" \/ key = "Up" -> [acc EXCEPT !.velocity = Add3(@, forward)]
      [] key = "S" \/ key = "Down" -> [acc EXCEPT !.velocity = Add3(@, Neg3(forward))]
      [] key = "A" \/ key = "Left" -> [acc EXCEPT !.velocity = Add3(@, Neg3(right))]
      [] key = "D" \/ key = "Right" -> [acc EXCEPT !.velocity = Add3(@, right)]
      [] key = "Space" \/ key = "Period" -> [acc EXCEPT !.velocity = Add3(@, <<0, Scale, 0>>)]
      [] key = "RShift" \/ key = "Comma" -> [acc EXCEPT !.velocity = Add3(@, <<0, -Scale, 0>>)]
      [] key = "LBracket" -> [acc EXCEPT !.ry = @ - delta]
      [] key = "RBracket" -> [acc EXCEPT !.ry = @ + delta]
      [] key = "Q" -> [acc EXCEPT !.rx = @ - delta]
      [] key = "E" -> [acc EXCEPT !.rx = @ + delta]
      [] key = "Z" -> [acc EXCEPT !.rz = @ - delta]
      [] key = "X" -> [acc EXCEPT !.rz = @ + delta]
      [] OTHER -> acc

RECURSIVE MoveLoop(_, _, _, _)
MoveLoop(acc, order, forward, right) ==
    IF order = <<>> THEN acc
    ELSE MoveLoop(MoveKey(acc, Head(order), forward, right), Tail(order), forward, right)

\* (mutant) player_move moves along the camera's own forward direction
MoveForwardUnprojected(t) == Forward(t)

\* the horizontal forward and right directions player_move moves along
MoveForward(t) == <<-LocalZ(t)[1], 0, -LocalZ(t)[3]>>
MoveRight(t) == <<LocalZ(t)[3], 0, -LocalZ(t)[1]>>

\* velocity * time.delta_seconds() * settings.speed * boost
Displacement(velocity, boost) ==
    <<RoundDiv(velocity[1] * delta * Speed * boost.num, 6 * boost.den),
      RoundDiv(velocity[2] * delta * Speed * boost.num, 6 * boost.den),
      RoundDiv(velocity[3] * delta * Speed * boost.num, 6 * boost.den)>>

\* settings.speed * boost * r / 100 * PI * halves, r in sixths of a second,
\* in quarter turns
QuarterTurns(r, boost, halves) ==
    (Speed * boost.num * r * 2 * halves) \div (boost.den * 600)

\* the body of player_move's loop over the cameras
MoveCam(t) ==
    LET boost == GetBoost(keys.pressed)
        acc == MoveLoop([velocity |-> Zero3, rx |-> 0, ry |-> 0, rz |-> 0],
                        keys.pressed, MoveForward(t), MoveRight(t))
        velocity == NormalizeOrZero(acc.velocity)
        yaw == FromRotationY(-QuarterTurns(acc.rx, boost, 2))
        pitch == FromRotationX(-QuarterTurns(acc.ry, boost, 1))
        roll == FromRotationZ(-QuarterTurns(acc.rz, boost, 1))
    IN  [translation |-> Add3(t.translation, Displacement(velocity, boost)),
         rotation |-> MatMul(MatMul(MatMul(yaw, t.rotation), pitch), roll)]

\* player_move's loop over the cameras
RECURSIVE MoveCams(_)
MoveCams(cams) ==
    IF cams = <<>> THEN <<>> ELSE <<MoveCam(Head(cams))>> \o MoveCams(Tail(cams))

\* player_move
PlayerMoveApp(a) == [a EXCEPT !.cams = MoveCams(@)]

\* the body of player_look's loop over the events
LookEvent(rotation, ev) ==
    MatMul(MatMul(FromRotationY(-ev.data[1]), rotation), FromRotationX(-ev.data[2]))

RECURSIVE LookEvents(_, _)
LookEvents(rotation, evs) ==
    IF evs = <<>> THEN rotation
    ELSE LookEvents(LookEvent(rotation, Head(evs)), Tail(evs))

\* history: the events evs were applied to camera i in this frame
\* (missed: how many events were dropped before the reader saw them)
RECURSIVE LookLog(_, _, _, _)
LookLog(evs, i, locked, missed) ==
    IF evs = <<>> THEN <<>>
    ELSE <<[id |-> Head(evs).id, sent |-> Head(evs).frame, at |-> frame, cam |-> i,
            locked |-> locked,
            please_move |-> "Left" \in buttons \/ "Right" \in buttons,
            missed |-> missed]>>
             \o LookLog(Tail(evs), i, locked, missed)

\* (mutant) the reader is not advanced, so every camera is given the events
RECURSIVE LookCamsKeepReader(_, _)
LookCamsKeepReader(a, i) ==
    IF i > Len(a.cams) THEN a
    ELSE LET evs == ReaderIter(a.reader_motion, motion)
         IN  LookCamsKeepReader(
                 [a EXCEPT
                    !.cams[i].rotation = LookEvents(@, evs),
                    !.looked = @ \o LookLog(evs, i, a.window.locked, 0)],
                 i + 1)

\* player_look's loop over the cameras, from camera i on: each camera is
\* given what reader_motion has not yet seen
RECURSIVE LookCams(_, _)
LookCams(a, i) ==
    IF i > Len(a.cams) THEN a
    ELSE LET evs == ReaderIter(a.reader_motion, motion)
         IN  LookCams(
                 [a EXCEPT
                    !.cams[i].rotation = LookEvents(@, evs),
                    !.reader_motion = motion.event_count,
                    !.looked = @ \o LookLog(evs, i, a.window.locked,
                        IF motion.a_start > a.reader_motion
                        THEN motion.a_start - a.reader_motion ELSE 0)],
                 i + 1)

\* (mutant) player_look without the early return
PlayerLookNoGate(a) == IF ~hasWindow THEN a ELSE LookCams(a, 1)

\* (mutant) player_look without the check for a primary window
PlayerLookNoWindow(a) ==
    IF ~a.window.locked /\ ~("Left" \in buttons \/ "Right" \in buttons) THEN a
    ELSE LookCams(a, 1)

\* player_look
PlayerLookApp(a) ==
    IF ~hasWindow THEN a
    ELSE IF ~a.window.locked /\ ~("Left" \in buttons \/ "Right" \in buttons) THEN a
    ELSE LookCams(a, 1)

\* (mutant) cursor_grab toggles while Escape is held
CursorGrabHeld(a) ==
    IF hasWindow /\ "Escape" \in Range(keys.pressed)
    THEN [a EXCEPT !.window = ToggleGrabCursor(@)]
    ELSE a

\* cursor_grab
CursorGrabApp(a) ==
    IF hasWindow /\ "Escape" \in keys.just_pressed
    THEN [a EXCEPT !.window = ToggleGrabCursor(@)]
    ELSE a

\* forward * event.y * sensitivity * get_boost(..), sensitivity folded into y
ScrollStep(t, ev) ==
    LET boost == GetBoost(keys.pressed)
    IN  <<RoundDiv(Forward(t)[1] * ev.data * boost.num, boost.den),
          RoundDiv(Forward(t)[2] * ev.data * boost.num, boost.den),
          RoundDiv(Forward(t)[3] * ev.data * boost.num, boost.den)>>

\* scroll's inner loop: one event moves every camera
RECURSIVE ScrollCams(_, _)
ScrollCams(cams, ev) ==
    IF cams = <<>> THEN <<>>
    ELSE <<[Head(cams) EXCEPT !.translation = Add3(@, ScrollStep(Head(cams), ev))]>>
             \o ScrollCams(Tail(cams), ev)

\* scroll's loop over the events
RECURSIVE ScrollEvents(_, _)
ScrollEvents(cams, evs) ==
    IF evs = <<>> THEN cams
    ELSE ScrollEvents(ScrollCams(cams, Head(evs)), Tail(evs))

\* (mutant) scroll only while the cursor is locked
ScrollLockedOnly(a) ==
    IF hasWindow /\ a.window.locked
    THEN [a EXCEPT !.cams = ScrollEvents(@, ReaderIter(a.reader_wheel, wheel)),
                   !.reader_wheel = wheel.event_count]
    ELSE a

\* scroll
ScrollApp(a) ==
    [a EXCEPT !.cams = ScrollEvents(@, ReaderIter(a.reader_wheel, wheel)),
              !.reader_wheel = wheel.event_count]


----------------------------------------------------------------------------
(* The state machine *)

\* a FlyCam camera the host app spawns itself
HostCam == [translation |-> Zero3, rotation |-> Identity]

\* the app as the host builds it: under NoCameraPlayerPlugin the host spawns
\* the camera that PlayerPlugin's setup_player would
NewApp(p, hostCams) ==
    [cams |-> IF "setup_player" \in StartupSystems(p)
              THEN hostCams ELSE Append(hostCams, PlayerTransform),
     window |-> [locked |-> FALSE, visible |-> TRUE],
     reader_motion |-> 0,
     reader_wheel |-> 0,
     spawned |-> 0,
     looked |-> <<>>]

InitWith(scenes, windows) ==
    /\ hasWindow \in windows
    /\ todo = {s \in AllStartup : TRUE}
    /\ frame = 0
    /\ keys = [pressed |-> <<>>, just_pressed |-> {}]
    /\ buttons = {}
    /\ motion = EmptyEvents
    /\ wheel = EmptyEvents
    /\ delta = 0
    /\ escapes = 0
    /\ \E hostCams \in scenes :
          apps = [PlayerPlugin |-> NewApp("PlayerPlugin", hostCams),
                  NoCameraPlayerPlugin |-> NewApp("NoCameraPlayerPlugin", hostCams)]

\* every app that registered system sys does op
EachApp(sys, registered(_), op(_)) ==
    [PlayerPlugin |->
        IF sys \in registered("PlayerPlugin")
        THEN op(apps["PlayerPlugin"]) ELSE apps["PlayerPlugin"],
     NoCameraPlayerPlugin |->
        IF sys \in registered("NoCameraPlayerPlugin")
        THEN op(apps["NoCameraPlayerPlugin"]) ELSE apps["NoCameraPlayerPlugin"]]

SetupPlayer ==
    /\ "setup_player" \in todo
    /\ todo' = todo \ {"setup_player"}
    /\ apps' = EachApp("setup_player", StartupSystems, SetupPlayerApp)
    /\ UNCHANGED <<hasWindow, frame, keys, buttons, motion, wheel, delta, escapes>>

InitialGrabCursor ==
    /\ "initial_grab_cursor" \in todo
    /\ todo' = todo \ {"initial_grab_cursor"}
    /\ apps' = EachApp("initial_grab_cursor", StartupSystems, InitialGrabCursorApp)
    /\ UNCHANGED <<hasWindow, frame, keys, buttons, motion, wheel, delta, escapes>>

PlayerMove ==
    /\ "player_move" \in todo
    /\ todo' = todo \ {"player_move"}
    /\ apps' = EachApp("player_move", Systems, PlayerMoveApp)
    /\ UNCHANGED <<hasWindow, frame, keys, buttons, motion, wheel, delta, escapes>>

PlayerLook ==
    /\ "player_look" \in todo
    /\ todo' = todo \ {"player_look"}
    /\ apps' = EachApp("player_look", Systems, PlayerLookApp)
    /\ UNCHANGED <<hasWindow, frame, keys, buttons, motion, wheel, delta, escapes>>

Scroll ==
    /\ "scroll" \in todo
    /\ todo' = todo \ {"scroll"}
    /\ apps' = EachApp("scroll", Systems, ScrollApp)
    /\ UNCHANGED <<hasWindow, frame, keys, buttons, motion, wheel, delta, escapes>>

CursorGrab ==
    /\ "cursor_grab" \in todo
    /\ todo' = todo \ {"cursor_grab"}
    /\ apps' = EachApp("cursor_grab", Systems, CursorGrabApp)
    /\ UNCHANGED <<hasWindow, frame, keys, buttons, motion, wheel, delta, escapes>>

\* the key rotation of the frame is a whole number of quarter turns
AnglesExact(order, dt) ==
    Range(order) \cap TurnKeys # {}
        => (Speed * GetBoost(order).num * dt * 2) % (GetBoost(order).den * 600) = 0

\* A frame begins: the window events since the last frame reach Input and
\* Events, Events::update runs (stage First), and the systems are scheduled.
\* K: the keys in use, of which those in Stay stay held; B: the buttons in use;
\* D, W: the mouse deltas and wheel steps; T: the frame times.  The pressed
\* set keeps its iteration order as long as it holds the same keys.
BeginFrame(K, Stay, B, D, W, T, maxFrames) ==
    /\ todo = {}
    /\ frame < maxFrames
    /\ \E held \in SUBSET K, btn \in SUBSET B,
          ms \in SeqsUpTo(D, MaxMotion), ws \in SeqsUpTo(W, MaxWheel), dt \in T :
          /\ Cardinality(held) <= MaxHeld
          /\ Stay \subseteq held
          /\ \E order \in IF held = Range(keys.pressed)
                          THEN {keys.pressed} ELSE Orders(held) :
                /\ AnglesExact(order, dt)
                /\ keys' = [pressed |-> order, just_pressed |-> held \ Range(keys.pressed)]
          /\ buttons' = btn
          /\ motion' = EventsUpdate(EventsSendAll(motion, ms, frame + 1))
          /\ wheel' = EventsUpdate(EventsSendAll(wheel, ws, frame + 1))
          /\ delta' = dt
          /\ escapes' = IF "Escape" \in held \ Range(keys.pressed)
                        THEN escapes + 1 ELSE escapes
    /\ frame' = frame + 1
    /\ todo' = {s \in AllSystems : frame' > 0}
    /\ apps' = [PlayerPlugin |-> [apps["PlayerPlugin"] EXCEPT !.looked = <<>>],
                 NoCameraPlayerPlugin |->
                     [apps["NoCameraPlayerPlugin"] EXCEPT !.looked = <<>>]]
    /\ UNCHANGED hasWindow

Stages == SetupPlayer \/ InitialGrabCursor \/ PlayerMove \/ PlayerLook \/ Scroll \/ CursorGrab

\* the host spawns no FlyCam of its own, or one
Scenes == {<<>>, <<HostCam>>}
TwoCams == {<<HostCam>>}
WithWindow == {TRUE}
NoKeys == {}
NoButtons == {}
NoDeltas == {}
NoWheel == {}
FrameTimes == {25}

\* looking around: Escape, the mouse buttons, mouse motion
LookKeys == {"Escape"}
LookButtons == {"Left", "Right"}
LookDeltas == {<<0, 1>>, <<1, 0>>}
LookFrame ==
    BeginFrame(LookKeys, NoKeys, LookButtons, LookDeltas, NoWheel, FrameTimes, MaxFrames)
Init == InitWith(Scenes, BOOLEAN)
Next == LookFrame \/ Stages
Spec == Init /\ [][Next]_vars

\* the cursor: Escape and another key, pressed and released over the frames
CursorKeys == {"Escape", "Tab"}
CursorFrame ==
    BeginFrame(CursorKeys, NoKeys, NoButtons, NoDeltas, NoWheel, FrameTimes,
               MaxCursorFrames)
NextCursor == CursorFrame \/ Stages
SpecCursor == Init /\ [][NextCursor]_vars

\* moving: a chord of keys is pressed in the first frame and held
MoveKeySet == MoveKeys \cup HeightKeys \cup BoostKeys \cup TurnKeys
MoveFrame ==
    BeginFrame(IF frame = 0 THEN MoveKeySet ELSE Range(keys.pressed),
               Range(keys.pressed),
               NoButtons, NoDeltas, NoWheel, FrameTimes, MaxMoveFrames)
InitMove == InitWith(TwoCams, WithWindow)
NextMove == MoveFrame \/ Stages
SpecMove == InitMove /\ [][NextMove]_vars

\* scrolling: a chord of Escape and the boost keys is pressed in the first
\* frame and held, and the wheel turns
ScrollKeys == {"Escape", "LShift", "O"}
WheelSteps == {-1, 1}
ScrollFrame ==
    BeginFrame(IF frame = 0 THEN ScrollKeys ELSE Range(keys.pressed),
               Range(keys.pressed),
               NoButtons, NoDeltas, WheelSteps, FrameTimes, MaxScrollFrames)
NextScroll == ScrollFrame \/ Stages
SpecScroll == InitMove /\ [][NextScroll]_vars

----------------------------------------------------------------------------
(* Claims about looking around and the cursor *)

\* the step runs system sys
Runs(sys) == sys \in todo /\ sys \notin todo'

Rotations(a) == [i \in 1..Len(a.cams) |-> a.cams[i].rotation]
PleaseMove == "Left" \in buttons \/ "Right" \in buttons
StartupDone == todo \cap AllStartup = {}

C2_CursorParity ==
    hasWindow /\ "initial_grab_cursor" \notin todo /\ "cursor_grab" \notin todo
        => \A p \in Plugins :
              /\ apps[p].window.locked = (escapes % 2 = 0)
              /\ apps[p].window.visible = (escapes % 2 = 1)

\* C2's case: Escape was just pressed in two frames and is now only held, with
\* another key just pressed, and cursor_grab has run.
C2_Witness ==
    /\ hasWindow /\ escapes = 2 /\ "cursor_grab" \notin todo
    /\ "Escape" \in Range(keys.pressed) /\ "Escape" \notin keys.just_pressed
    /\ "Tab" \in keys.just_pressed
    /\ apps["PlayerPlugin"].window.locked

\* C3: the two plugins register the same resources and the same systems but
\* for setup_player; PlayerPlugin's startup spawns exactly one FlyCam and
\* NoCameraPlayerPlugin's none; and with the same FlyCam entities, the same
\* input and the same schedule the two apps have the same transforms and the
\* same cursor state after every system of every frame.
C3_PluginsAgree ==
    /\ Resources("PlayerPlugin") = Resources("NoCameraPlayerPlugin")
    /\ Systems("PlayerPlugin") = Systems("NoCameraPlayerPlugin")
    /\ StartupSystems("PlayerPlugin") \ {"setup_player"}
           = StartupSystems("NoCameraPlayerPlugin")
    /\ StartupDone =>
          /\ apps["PlayerPlugin"].spawned = 1
          /\ apps["NoCameraPlayerPlugin"].spawned = 0
          /\ apps["PlayerPlugin"].cams = apps["NoCameraPlayerPlugin"].cams
          /\ apps["PlayerPlugin"].window = apps["NoCameraPlayerPlugin"].window

\* C3's case: two cameras, and after the first frame a camera has turned away
\* from where it was spawned and the cursor has been released.
C3_Witness ==
    /\ StartupDone /\ frame >= 2 /\ todo = {}
    /\ Len(apps["NoCameraPlayerPlugin"].cams) = 2
    /\ apps["NoCameraPlayerPlugin"].cams[1].rotation # Identity
    /\ hasWindow /\ ~apps["NoCameraPlayerPlugin"].window.locked

\* C4: without a primary window, initial_grab_cursor, cursor_grab and
\* player_look change nothing: no transform, no cursor state, no reader.
C4_NoWindowNoEffect ==
    [][~hasWindow /\ (Runs("initial_grab_cursor") \/ Runs("cursor_grab") \/ Runs("player_look"))
          => apps' = apps]_vars

\* C4's case: no window; Escape just pressed, a button held and a motion event
\* pending; cursor_grab and player_look have both run.
C4_Witness ==
    /\ ~hasWindow /\ frame > 0
    /\ "cursor_grab" \notin todo /\ "player_look" \notin todo
    /\ "Escape" \in keys.just_pressed /\ "Left" \in buttons
    /\ motion.events_a # <<>>
    /\ apps["PlayerPlugin"].cams # <<>>

\* a camera that is not rolled and whose pitch is within a quarter turn of level
Upright(t) == Col(t.rotation, 1)[2] = 0 /\ Col(t.rotation, 2)[2] >= 0

\* C6: the pitch is clamped: mouse motion and the pitch keys never take a
\* camera that is not rolled past straight up or straight down.
C6_PitchClamped ==
    [][\A p \in Plugins : \A i \in 1..Len(apps[p].cams) :
          /\ Runs("player_look") \/ Runs("player_move")
          /\ Range(keys.pressed) \cap RollKeys = {}
          /\ Upright(apps[p].cams[i])
          => Upright(apps'[p].cams[i])]_vars

\* C9: player_look applies a motion event only in the frame the event arrived
\* in, only while looking is not gated off (cursor locked, or Left or Right
\* held), and no event twice.
C9_MotionAppliedOnceInItsFrame ==
    \A p \in Plugins : \A i \in 1..Len(apps[p].looked) :
        /\ apps[p].looked[i].sent = apps[p].looked[i].at
        /\ apps[p].looked[i].locked \/ apps[p].looked[i].please_move
        /\ \A j \in 1..Len(apps[p].looked) :
              apps[p].looked[j].id = apps[p].looked[i].id => j = i

\* C9's case: with two cameras, player_look applies the events of this frame
\* after events of an earlier, gated-off frame were dropped unread.
C9_Witness ==
    /\ Len(apps["PlayerPlugin"].cams) = 2
    /\ \E i \in 1..Len(apps["PlayerPlugin"].looked) :
          apps["PlayerPlugin"].looked[i].missed > 0


----------------------------------------------------------------------------
(* Claims about moving and scrolling *)

\* the boost C5 states for a set of held keys
StatedBoost(held) ==
    IF "LShift" \in held THEN [num |-> Boost, den |-> 1]
    ELSE IF "O" \in held THEN [num |-> 1, den |-> Boost]
    ELSE [num |-> 1, den |-> 1]

\* the velocity of player_move for camera t, normalised
MoveVelocity(t) ==
    NormalizeOrZero(
        MoveLoop([velocity |-> Zero3, rx |-> 0, ry |-> 0, rz |-> 0],
                 keys.pressed, MoveForward(t), MoveRight(t)).velocity)

\* C5: get_boost is settings.boost if LShift is held, else 1 / settings.boost
\* if O is held, else 1; and with LShift held player_move moves every camera
\* settings.boost times as far as it does with no modifier held.
C5_BoostByHeldKeys ==
    [][/\ GetBoost(keys.pressed) = StatedBoost(Range(keys.pressed))
       /\ Runs("player_move") /\ "LShift" \in Range(keys.pressed)
            => \A p \in Plugins : \A i \in 1..Len(apps[p].cams) :
                  apps'[p].cams[i].translation =
                      Add3(apps[p].cams[i].translation,
                           Mul3(Displacement(MoveVelocity(apps[p].cams[i]),
                                             [num |-> 1, den |-> 1]), Boost))]_vars

\* C7: a frame of player_move in which none of Space, Period, RShift and Comma
\* is held leaves the y component of every FlyCam translation unchanged.
C7_HorizontalKeysKeepHeight ==
    [][Runs("player_move") /\ Range(keys.pressed) \cap HeightKeys = {}
          => \A p \in Plugins : \A i \in 1..Len(apps[p].cams) :
                apps'[p].cams[i].translation[2] = apps[p].cams[i].translation[2]]_vars

\* C7's case: with W held and no height key, player_move has moved the pitched
\* camera of setup_player, and only horizontally.
C7_Witness ==
    /\ frame > 0 /\ "player_move" \notin todo
    /\ "W" \in Range(keys.pressed) /\ Range(keys.pressed) \cap HeightKeys = {}
    /\ Len(apps["PlayerPlugin"].cams) = 2
    /\ Col(apps["PlayerPlugin"].cams[2].rotation, 3)[2] # 0
    /\ apps["PlayerPlugin"].cams[2].translation # PlayerTransform.translation
    /\ apps["PlayerPlugin"].cams[2].translation[2] = PlayerTransform.translation[2]

\* what C8 states one wheel event adds to the translation of camera t
StatedScrollStep(t, y) ==
    LET f == Neg3(Unit3(Col(t.rotation, 3)))
        b == GetBoost(keys.pressed)
    IN  <<RoundDiv(f[1] * y * b.num, b.den),
          RoundDiv(f[2] * y * b.num, b.den),
          RoundDiv(f[3] * y * b.num, b.den)>>

RECURSIVE StatedScroll(_, _)
StatedScroll(t, evs) ==
    IF evs = <<>> THEN t.translation
    ELSE StatedScroll([t EXCEPT !.translation = Add3(@, StatedScrollStep(t, Head(evs).data))],
                      Tail(evs))

\* C8: scroll moves every camera along its own forward direction by
\* event.y * sensitivity * get_boost for every wheel event of the frame, once
\* each, and changes no rotation and no cursor state, locked or not.
C8_ScrollMovesForward ==
    [][Runs("scroll")
          => \A p \in Plugins :
                /\ Rotations(apps'[p]) = Rotations(apps[p])
                /\ apps'[p].window = apps[p].window
                /\ Len(apps'[p].cams) = Len(apps[p].cams)
                /\ \A i \in 1..Len(apps[p].cams) :
                      apps'[p].cams[i].translation =
                          StatedScroll(apps[p].cams[i], wheel.events_a)]_vars

\* C8's case: scroll has run on two wheel events with two cameras, the cursor
\* unlocked and LShift held, and the camera of setup_player has moved.
C8_Witness ==
    /\ frame > 0 /\ "scroll" \notin todo /\ "player_move" \in todo
    /\ Len(wheel.events_a) = 2
    /\ "LShift" \in Range(keys.pressed)
    /\ hasWindow /\ ~apps["PlayerPlugin"].window.locked
    /\ Len(apps["PlayerPlugin"].cams) = 2
    /\ apps["PlayerPlugin"].cams[2].translation # PlayerTransform.translation

============================================================================
